---- MODULE Spec2Model ----
(***************************************************************************)
(* Model of the DroneLogDatabase front end: the comparator factory and     *)
(* stableSort that every list page carries a copy of, the MapDisplay       *)
(* point decimation, and the Flights page view-model.                      *)
(***************************************************************************)
EXTENDS Integers, Sequences, FiniteSets, Bags, TLC

\* ------------------------------------------------------------------------
\* Bounds of the model
\* ------------------------------------------------------------------------
\* longest telemetry track fed to MapDisplay
MaxPoints == 3
\* latitudes and longitudes range over 0..MaxCoord grid steps
MaxCoord == 2
\* longest string held by a sort column
MaxStrLen == 1
\* numbers held by a sort column range over 0..MaxNum
MaxNum == 2
\* longest array handed to stableSort
MaxLen == 3
\* most flights in a response that the Flights table enriches and sorts
MaxRows == 5
\* longest name typed into the new-pilot field
MaxNameLen == 2
\* most requests the create and import forms send
MaxSent == 4
\* highest page index the Flights table is turned to
MaxPage == 1
\* most getFlights requests outstanding at a time
MaxPending == 2
\* flights in the server's table
ServerCount == 12
\* most altitude-offset writes FlightDetail sends
MaxWrites == 2

\* ------------------------------------------------------------------------
\* State
\* ------------------------------------------------------------------------
\* a call of a page's comparator: the page, the direction and column, the
\* two records and the result
VARIABLES cmpPage, cmpOrder, cmpOrderBy, cmpA, cmpB, cmpResult, cmpPc

\* a call of stableSort and a second call on its result
VARIABLES sortPage, sortOrder, sortOrderBy, sortArray, sorted, sortedAgain, sortPc

\* MapDisplay: the flightData prop, the memoised validFlightData and
\* intelligentPoints, and the locals of the decimation loop; FlightDetail's
\* showAllMapPoints, handed to MapDisplay as the showAllPoints prop
VARIABLES flightData, validFlightData, filteredPoints, lastPoint, walkI,
          intelligentPoints, mapPc, showAllMapPoints

\* Flights page: its useState cells, the getFlights calls outstanding, and
\* how the getFlights call that settled last ended: the then-branch of
\* fetchFlights ran ("resolved"), or its catch ("rejected"); anyRejected:
\* whether the catch of fetchFlights has run since the page was mounted
VARIABLES filters, page, rowsPerPage, order, orderBy, flights, totalFlights, requests,
          flightsPc, lastSettled, anyRejected

\* the sortedFlights memo of the Flights page: the flights, order and
\* orderBy it is computed from, and its value
VARIABLES rowFlights, rowOrder, rowOrderBy, sortedFlights, rowsPc

\* the create and import forms (Pilots, Flights, Admin): the page that is
\* open, its form state, the answer to the last window.confirm, the calls
\* awaited, the requests sent, the list on display (pilots or flights, by
\* id), the ids of the server's records, and the handler or continuation
\* that ran last
VARIABLES formPage, newPilotName, newFlightData, importFile, importZipFile, feedback,
          confirmed, pending, sent, listState, serverRecords, lastCall

\* the screen that is mounted (FlightDetail, MapDisplay3D, FlightLocations,
\* Admin, DroneDetail or BatteryPackDetail)
VARIABLES screen

\* FlightDetail: whether it is mounted, its flight and altitudeOffset
\* state, the timers set by setTimeout and not yet expired or cleared (by
\* the offset their callback closes over), the timer of the debounce
\* effect's last run, the getFlightById calls outstanding, the flight the
\* server holds, the offset of the last write and the number of writes,
\* whether the offset field was changed by the user, and the editing and
\* notes state of its NotesEditor
VARIABLES fdMounted, flight, altitudeOffset, timers, handler, fdRequests, serverFlight,
          lastWrite, writeCount, userChanged, editing, notes

\* MapDisplay3D: where initViewer stands, viewerRef.current, the viewers
\* constructed and not destroyed, whether the effect's cleanup has run,
\* and isViewerInitialized
VARIABLES viewerPc, viewerRef, liveViewers, cleanupRan, isViewerInitialized

\* FlightLocations: locations (by id, with whether the location carries
\* images), the ids with cached locationStatistics, expanded, loadingStats,
\* the fetchStatistics calls outstanding and the getFlightLocations calls
\* outstanding
VARIABLES locations, locationStatistics, expanded, loadingStats, statsRequests, listRequests

\* Admin: the switch, the value the server stores, the feedback of the
\* switch, the updateSetting calls outstanding, the state of the mount
\* effect's getSetting, and how the updateSetting that settled last ended
VARIABLES showDipulMapLink, storedSetting, dipulFeedback, settingUpdates, settingsFetch,
          lastUpdate

\* DroneDetail and BatteryPackDetail: the state of the initial fetch, the
\* drone and batteryPack state, and whether getDrones lists the drone
VARIABLES detailFetch, drone, batteryPack, droneListed

cmpVars == <<cmpPage, cmpOrder, cmpOrderBy, cmpA, cmpB, cmpResult, cmpPc>>

sortVars == <<sortPage, sortOrder, sortOrderBy, sortArray, sorted, sortedAgain, sortPc>>

mapVars == <<flightData, validFlightData, filteredPoints, lastPoint, walkI,
             intelligentPoints, mapPc, showAllMapPoints>>

flightsVars == <<filters, page, rowsPerPage, order, orderBy, flights, totalFlights,
                 requests, flightsPc, lastSettled, anyRejected>>

rowsVars == <<rowFlights, rowOrder, rowOrderBy, sortedFlights, rowsPc>>

formsVars == <<formPage, newPilotName, newFlightData, importFile, importZipFile, feedback,
               confirmed, pending, sent, listState, serverRecords, lastCall>>

fdVars == <<fdMounted, flight, altitudeOffset, timers, handler, fdRequests, serverFlight,
            lastWrite, writeCount, userChanged, editing, notes>>

viewerVars == <<viewerPc, viewerRef, liveViewers, cleanupRan, isViewerInitialized>>

locVars == <<locations, locationStatistics, expanded, loadingStats, statsRequests,
             listRequests>>

adminVars == <<showDipulMapLink, storedSetting, dipulFeedback, settingUpdates, settingsFetch,
               lastUpdate>>

detailVars == <<detailFetch, drone, batteryPack, droneListed>>

screensVars == <<screen, fdVars, viewerVars, locVars, adminVars, detailVars>>

vars == <<cmpVars, sortVars, mapVars, flightsVars, rowsVars, formsVars, screensVars>>

\* each component runs on its own: what a step of one leaves alone
notCmpVars == <<sortVars, mapVars, flightsVars, rowsVars, formsVars, screensVars>>
notSortVars == <<cmpVars, mapVars, flightsVars, rowsVars, formsVars, screensVars>>
notMapVars == <<cmpVars, sortVars, flightsVars, rowsVars, formsVars, screensVars>>
notFlightsVars == <<cmpVars, sortVars, mapVars, rowsVars, formsVars, screensVars>>
notRowsVars == <<cmpVars, sortVars, mapVars, flightsVars, formsVars, screensVars>>
notFormsVars == <<cmpVars, sortVars, mapVars, flightsVars, rowsVars, screensVars>>
notScreensVars == <<cmpVars, sortVars, mapVars, flightsVars, rowsVars, formsVars>>

\* ------------------------------------------------------------------------
\* JavaScript values: numbers, strings (sequences of UTF-16 code units),
\* undefined and null, all of one record shape.
\* ------------------------------------------------------------------------
Num(n) == [t |-> "number", n |-> n, s |-> <<>>]
Str(s) == [t |-> "string", n |-> 0, s |-> s]
Undefined == [t |-> "undefined", n |-> 0, s |-> <<>>]
Null == [t |-> "null", n |-> 0, s |-> <<>>]

\* v !== undefined && v !== null
IsPresent(v) == v # Undefined /\ v # Null

\* ToBoolean(v): undefined, null, 0 and '' are falsy
Truthy(v) ==
  CASE v.t = "number" -> v.n # 0
    [] v.t = "string" -> v.s # <<>>
    [] OTHER -> FALSE

\* ------------------------------------------------------------------------
\* The relational operators of JavaScript
\* ------------------------------------------------------------------------
\* s < t for two strings: lexicographic on code units
LexLess(s, t) ==
  \E k \in 1..Len(t) :
    /\ k <= Len(s) + 1
    /\ \A j \in 1..(k - 1) : s[j] = t[j]
    /\ (k = Len(s) + 1 \/ s[k] < t[k])

\* ToNumber(v): null and '' are 0, undefined and any other string of the
\* model (letters only) are NaN
NaN == [nan |-> TRUE, n |-> 0]
ToNumber(v) ==
  CASE v.t = "number" -> [nan |-> FALSE, n |-> v.n]
    [] v.t = "null" -> [nan |-> FALSE, n |-> 0]
    [] v.t = "string" /\ v.s = <<>> -> [nan |-> FALSE, n |-> 0]
    [] OTHER -> NaN

\* x < y: two strings compare as strings, anything else as numbers, and a
\* comparison with NaN is false
JsLess(x, y) ==
  IF x.t = "string" /\ y.t = "string"
  THEN LexLess(x.s, y.s)
  ELSE LET nx == ToNumber(x)
           ny == ToNumber(y)
       IN  ~nx.nan /\ ~ny.nan /\ nx.n < ny.n

\* v || ''
OrEmpty(v) == IF Truthy(v) THEN v ELSE Str(<<>>)

\* ------------------------------------------------------------------------
\* Comparator factory (one copy per page)
\* ------------------------------------------------------------------------
\* the pages that carry a copy of descendingComparator / getComparator /
\* stableSort
Pages == {"Pilots", "BatteryPacks", "Flights", "DroneDetail", "Drones", "BatteryPackDetail"}

\* the copies in Drones and BatteryPackDetail read a[orderBy] || ''
SubstitutesEmpty(pg) == pg \in {"Drones", "BatteryPackDetail"}

\* type Order = 'asc' | 'desc'
Orders == {"asc", "desc"}

\* the sort columns of a record: a string column and a number column
Fields == {"name", "duration"}

\* the operands descendingComparator compares on page pg
Operand(pg, rec, field) == IF SubstitutesEmpty(pg) THEN OrEmpty(rec[field]) ELSE rec[field]

\* descendingComparator(a, b, orderBy) of page pg
descendingComparator(pg, a, b, field) ==
  LET valA == Operand(pg, a, field)
      valB == Operand(pg, b, field)
  IN  IF JsLess(valB, valA) THEN -1
      ELSE IF JsLess(valA, valB) THEN 1
      ELSE 0

\* getComparator(order, orderBy) of page pg: the closure it returns
getComparator(pg, ord, field) == [page |-> pg, order |-> ord, orderBy |-> field]

\* ApplyComparator with the two directions exchanged
ApplyComparator_Swapped(c, a, b) ==
  IF c.order = "desc"
  THEN 0 - descendingComparator(c.page, a, b, c.orderBy)
  ELSE descendingComparator(c.page, a, b, c.orderBy)

\* a call comparator(a, b) of a closure returned by getComparator
ApplyComparator(c, a, b) ==
  IF c.order = "desc"
  THEN descendingComparator(c.page, a, b, c.orderBy)
  ELSE 0 - descendingComparator(c.page, a, b, c.orderBy)

\* strings of the model: code units 97 ('a') and 98 ('b')
Alphabet == {97, 98}
Strings == UNION { [1..n -> Alphabet] : n \in 0..MaxStrLen }

\* the values of a string column and of a number column
StringValues == { Str(x) : x \in Strings }
NumberValues == { Num(n) : n \in 0..MaxNum }
Missing == {Undefined, Null}
ColumnValues(field) == IF field = "name" THEN StringValues ELSE NumberValues

\* a record of a list: its id and its two sort columns
Rec(id, name, duration) == [id |-> id, name |-> name, duration |-> duration]

\* the comparator of a page, a direction, a column and two records whose
\* columns hold any value of the column's type, or none
CmpInit ==
  /\ cmpPage \in Pages
  /\ cmpOrder \in Orders
  /\ cmpOrderBy \in Fields
  /\ \E n1 \in StringValues \cup Missing, d1 \in NumberValues \cup Missing :
       cmpA = Rec(1, n1, d1)
  /\ \E n2 \in StringValues \cup Missing, d2 \in NumberValues \cup Missing :
       cmpB = Rec(2, n2, d2)
  /\ cmpResult = 0
  /\ cmpPc = "ready"

CmpIdle ==
  /\ cmpPage = "Pilots"
  /\ cmpOrder = "asc"
  /\ cmpOrderBy = "name"
  /\ cmpA = Rec(1, Str(<<>>), Num(0))
  /\ cmpB = Rec(2, Str(<<>>), Num(0))
  /\ cmpResult = 0
  /\ cmpPc = "idle"

\* getComparator(order, orderBy)(a, b)
Compare ==
  /\ cmpPc = "ready"
  /\ cmpResult' = ApplyComparator(getComparator(cmpPage, cmpOrder, cmpOrderBy), cmpA, cmpB)
  /\ cmpPc' = "compared"
  /\ UNCHANGED <<cmpPage, cmpOrder, cmpOrderBy, cmpA, cmpB>>
  /\ UNCHANGED notCmpVars

\* ------------------------------------------------------------------------
\* stableSort (one copy per page)
\* ------------------------------------------------------------------------
\* array.map((el, index) => [el, index])
Stabilize(array) == [i \in 1..Len(array) |-> <<array[i], i - 1>>]

\* the compare function without the index tie-break
TaggedCompare_NoTieBreak(comparator, a, b) == ApplyComparator(comparator, a[1], b[1])

\* the compare function with the tie-break written b[1] - a[1]
TaggedCompare_ReversedTies(comparator, a, b) ==
  LET ord == ApplyComparator(comparator, a[1], b[1])
  IN  IF ord # 0 THEN ord ELSE b[2] - a[2]

\* the compare function handed to stabilizedThis.sort
TaggedCompare(comparator, a, b) ==
  LET ord == ApplyComparator(comparator, a[1], b[1])
  IN  IF ord # 0 THEN ord ELSE a[2] - b[2]

Sign(x) == IF x < 0 THEN -1 ELSE IF x > 0 THEN 1 ELSE 0

Arrangements(n) == { p \in [1..n -> 1..n] : \A i, j \in 1..n : p[i] = p[j] => i = j }

\* ECMAScript's "consistent comparator" for the elements of seq
ConsistentComparator(seq, C(_, _)) ==
  LET n == Len(seq) IN
    /\ \A i, j \in 1..n : Sign(C(seq[i], seq[j])) = 0 - Sign(C(seq[j], seq[i]))
    /\ \A i, j, k \in 1..n :
         (C(seq[i], seq[j]) <= 0 /\ C(seq[j], seq[k]) <= 0) => C(seq[i], seq[k]) <= 0

\* Array.prototype.sort(C), by its contract: with a consistent comparator
\* the elements end up in an order C agrees with (elements that compare
\* equal in any order: the engine's sort need not be stable); with an
\* inconsistent one the order is implementation-defined.  The set of the
\* arrays the call may leave behind.
\* (When C is consistent and returns 0 for no two elements the order is
\* total and the one arrangement is found by counting predecessors.)
ArraySort(seq, C(_, _)) ==
  LET n == Len(seq)
      Arranged(p) == [i \in 1..n |-> seq[p[i]]]
      Strict == \A i, j \in 1..n : i # j => C(seq[i], seq[j]) # 0
      Rank(i) == Cardinality({ j \in 1..n : j # i /\ C(seq[j], seq[i]) < 0 }) + 1
  IN  IF ConsistentComparator(seq, C)
      THEN IF Strict
           THEN { [k \in 1..n |-> seq[CHOOSE i \in 1..n : Rank(i) = k]] }
           ELSE { Arranged(p) : p \in { q \in Arrangements(n) :
                     \A i, j \in 1..n : i < j => C(seq[q[i]], seq[q[j]]) <= 0 } }
      ELSE { Arranged(p) : p \in Arrangements(n) }

\* stabilizedThis.map((el) => el[0])
StripTags(tagged) == [i \in 1..Len(tagged) |-> tagged[i][1]]

\* stableSort that returns the mapped array without sorting it
stableSort_Unsorted(array, comparator) == { StripTags(Stabilize(array)) }

\* stableSort(array, comparator): the arrays the call may return
stableSort(array, comparator) ==
  { StripTags(r) :
      r \in ArraySort(Stabilize(array), LAMBDA a, b : TaggedCompare(comparator, a, b)) }

\* the values the sort column of page pg can hold when the page sorts: the
\* four pages that compare a[orderBy] directly sort on columns that their
\* interfaces declare required or that the enrichment step has filled;
\* Drones and BatteryPackDetail sort on optional columns too
SortColumnValues(pg, field) ==
  ColumnValues(field) \cup (IF SubstitutesEmpty(pg) THEN Missing ELSE {})

\* the array of records whose sort column holds col[1], col[2], ...; the id
\* of a record is its position in the list
ArrayOf(field, col) ==
  [i \in 1..Len(col) |->
     IF field = "name" THEN Rec(i, col[i], Num(0)) ELSE Rec(i, Str(<<>>), col[i])]

\* the pages whose sort the model runs: one that compares a[orderBy]
\* directly and one that substitutes '' (the other copies are identical to
\* one of the two)
SortPages == {"Pilots", "Drones"}

SortInit ==
  /\ sortPage \in SortPages
  /\ sortOrder \in Orders
  /\ sortOrderBy \in Fields
  /\ \E n \in 0..MaxLen : \E col \in [1..n -> SortColumnValues(sortPage, sortOrderBy)] :
       sortArray = ArrayOf(sortOrderBy, col)
  /\ sorted = <<>>
  /\ sortedAgain = <<>>
  /\ sortPc = "ready"

SortIdle ==
  /\ sortPage = "Pilots"
  /\ sortOrder = "asc"
  /\ sortOrderBy = "name"
  /\ sortArray = <<>>
  /\ sorted = <<>>
  /\ sortedAgain = <<>>
  /\ sortPc = "idle"

\* sorted = stableSort(array, getComparator(order, orderBy))
RunStableSort ==
  /\ sortPc = "ready"
  /\ sorted' \in stableSort(sortArray, getComparator(sortPage, sortOrder, sortOrderBy))
  /\ sortPc' = "sorted"
  /\ UNCHANGED <<sortPage, sortOrder, sortOrderBy, sortArray, sortedAgain>>
  /\ UNCHANGED notSortVars

\* stableSort(sorted, getComparator(order, orderBy)): the same sort applied
\* to its own result
RunStableSortAgain ==
  /\ sortPc = "sorted"
  /\ sortedAgain' \in stableSort(sorted, getComparator(sortPage, sortOrder, sortOrderBy))
  /\ sortPc' = "resorted"
  /\ UNCHANGED <<sortPage, sortOrder, sortOrderBy, sortArray, sorted>>
  /\ UNCHANGED notSortVars

\* ------------------------------------------------------------------------
\* MapDisplay: haversine distance and point decimation
\* ------------------------------------------------------------------------
\* One grid step is 0.00007 degrees.  With R = 6371000 m one degree of arc
\* is 111194.93 m, so a step is 7.78 m = 778 cm.  Tracks of the model lie
\* within MaxCoord steps of latitude 0, longitude 0, where cos(phi) differs
\* from 1 by less than 1e-10 and the haversine formula agrees with the
\* planar distance to far better than the 10 % by which the nearest grid
\* distances (7.78 m and 11.01 m) miss the threshold.
StepCm == 778
\* if (distance >= 10): the threshold in metres
MinDistance == 10

\* haversineDistance, as the SQUARE of the distance in centimetres (the
\* square root is not an integer; the code only ever compares the distance
\* with a constant, which the squares preserve).
haversineDistance(lat1, lon1, lat2, lon2) ==
  ((lat2 - lat1) * (lat2 - lat1) + (lon2 - lon1) * (lon2 - lon1)) * StepCm * StepCm

\* distance >= 10
AtLeastMinDistance(distance) == distance >= (MinDistance * 100) * (MinDistance * 100)

Coords == 0..MaxCoord

\* the coordinate pairs a sample of a flight log can carry: a fix anywhere
\* on the grid (the equator and the prime meridian included), or a sample
\* without a latitude or without a longitude
Fixes ==
  { <<Num(lat), Num(lon)>> : lat \in Coords, lon \in Coords }
  \cup { <<Undefined, Num(1)>>, <<Num(1), Null>> }

\* interface FlightDataPoint (the fields the map reads)
FlightDataPoint(id, fix) == [id |-> id, latitude |-> fix[1], longitude |-> fix[2]]

\* flight.flight_data with the coordinate pairs f: samples in chronological
\* order, ids unique (the id is the position in the log)
Track(f) == [i \in 1..Len(f) |-> FlightDataPoint(i, f[i])]

\* the predicate of flightData.filter(...)
IsValidPoint(point) == IsPresent(point.latitude) /\ IsPresent(point.longitude)

NoPoint == [id |-> 0, latitude |-> Undefined, longitude |-> Undefined]

ValidFilter(data) == SelectSeq(data, IsValidPoint)

\* Distance between two samples that carry numbers
PointDistance(p, q) ==
  haversineDistance(p.latitude.n, p.longitude.n, q.latitude.n, q.longitude.n)

\* the guard of the loop body: all four coordinates are truthy
WalkGuard(currentPoint, last) ==
  /\ Truthy(currentPoint.latitude) /\ Truthy(currentPoint.longitude)
  /\ Truthy(last.latitude) /\ Truthy(last.longitude)

\* WalkKeeps without the distance test: every sample that passes the guard
\* is pushed
WalkKeeps_NoThreshold(currentPoint, last) == WalkGuard(currentPoint, last)

\* WalkKeeps with the distance test inverted: a sample is pushed when it is
\* nearer than the threshold
WalkKeeps_Nearer(currentPoint, last) ==
  /\ WalkGuard(currentPoint, last)
  /\ ~AtLeastMinDistance(PointDistance(last, currentPoint))

\* the loop body's decision to push currentPoint
WalkKeeps(currentPoint, last) ==
  /\ WalkGuard(currentPoint, last)
  /\ AtLeastMinDistance(PointDistance(last, currentPoint))

\* ClosePath without the final push
ClosePath_Never(valid, kept, last) == kept

\* ClosePath without the id test: the final sample is pushed unconditionally
ClosePath_Always(valid, kept, last) == Append(kept, valid[Len(valid)])

\* if (last.id !== lastPoint.id) push(last)
ClosePath(valid, kept, last) ==
  IF valid[Len(valid)].id # last.id THEN Append(kept, valid[Len(valid)]) ELSE kept

\* FlightDetail: useState(true)
InitialShowAllMapPoints == TRUE

\* const pointsToRender = showAllPoints ? validFlightData : intelligentPoints
pointsToRender == IF showAllMapPoints THEN validFlightData ELSE intelligentPoints

MapInit ==
  /\ \E n \in 0..MaxPoints : \E f \in [1..n -> Fixes] : flightData = Track(f)
  /\ validFlightData = <<>>
  /\ filteredPoints = <<>>
  /\ lastPoint = NoPoint
  /\ walkI = 0
  /\ intelligentPoints = <<>>
  /\ mapPc = "render"
  /\ showAllMapPoints = InitialShowAllMapPoints

MapIdle ==
  /\ flightData = <<>>
  /\ validFlightData = <<>>
  /\ filteredPoints = <<>>
  /\ lastPoint = NoPoint
  /\ walkI = 0
  /\ intelligentPoints = <<>>
  /\ mapPc = "idle"
  /\ showAllMapPoints = InitialShowAllMapPoints

\* useMemo(() => flightData.filter(...))
ComputeValid ==
  /\ mapPc = "render"
  /\ validFlightData' = ValidFilter(flightData)
  /\ mapPc' = "valid"
  /\ UNCHANGED <<flightData, filteredPoints, lastPoint, walkI, intelligentPoints, showAllMapPoints>>
  /\ UNCHANGED notMapVars

\* if (validFlightData.length < 2) return validFlightData
DecimateShort ==
  /\ mapPc = "valid"
  /\ Len(validFlightData) < 2
  /\ intelligentPoints' = validFlightData
  /\ mapPc' = "done"
  /\ UNCHANGED <<flightData, validFlightData, filteredPoints, lastPoint, walkI, showAllMapPoints>>
  /\ UNCHANGED notMapVars

\* filteredPoints = [validFlightData[0]]; lastPoint = validFlightData[0]; i = 1
DecimateBegin ==
  /\ mapPc = "valid"
  /\ Len(validFlightData) >= 2
  /\ filteredPoints' = <<validFlightData[1]>>
  /\ lastPoint' = validFlightData[1]
  /\ walkI' = 2
  /\ mapPc' = "walk"
  /\ UNCHANGED <<flightData, validFlightData, intelligentPoints, showAllMapPoints>>
  /\ UNCHANGED notMapVars

\* one iteration of the for loop
DecimateStep ==
  /\ mapPc = "walk"
  /\ walkI <= Len(validFlightData)
  /\ LET currentPoint == validFlightData[walkI] IN
       IF WalkKeeps(currentPoint, lastPoint)
       THEN /\ filteredPoints' = Append(filteredPoints, currentPoint)
            /\ lastPoint' = currentPoint
       ELSE UNCHANGED <<filteredPoints, lastPoint>>
  /\ walkI' = walkI + 1
  /\ UNCHANGED <<flightData, validFlightData, intelligentPoints, mapPc, showAllMapPoints>>
  /\ UNCHANGED notMapVars

\* the loop is over: close the path and return filteredPoints
DecimateEnd ==
  /\ mapPc = "walk"
  /\ walkI > Len(validFlightData)
  /\ filteredPoints' = ClosePath(validFlightData, filteredPoints, lastPoint)
  /\ intelligentPoints' = filteredPoints'
  /\ mapPc' = "done"
  /\ UNCHANGED <<flightData, validFlightData, lastPoint, walkI, showAllMapPoints>>
  /\ UNCHANGED notMapVars

\* the 'Show all track points' switch of FlightDetail, rendered below the
\* 2D map of a flight that has telemetry: setShowAllMapPoints(e.target.checked).
\* The memoised validFlightData and intelligentPoints are not recomputed.
ToggleShowAllPoints ==
  /\ mapPc = "done"
  /\ Len(flightData) > 0
  /\ showAllMapPoints' = ~showAllMapPoints
  /\ UNCHANGED <<flightData, validFlightData, filteredPoints, lastPoint, walkI,
                 intelligentPoints, mapPc>>
  /\ UNCHANGED notMapVars

\* ------------------------------------------------------------------------
\* Flights page: filters, pagination, sort state and the flights fetch
\* ------------------------------------------------------------------------
\* '1', the id of the one drone and of the one location the filters offer
IdOne == Str(<<49>>)
\* '2024-01-01', the one date the date filters are set to
DateD == Str(<<50, 48, 50, 52, 45, 48, 49, 45, 48, 49>>)
Empty == Str(<<>>)

\* the filter controls the model operates, one per handler (locationId is
\* handled as droneId is, endDate as startDate), and the values they offer
InputFilterNames == {"startDate"}
SelectFilterNames == {"droneId"}
FilterValues(name) == IF name \in SelectFilterNames THEN {Empty, IdOne} ELSE {Empty, DateD}

\* rowsPerPageOptions={[10, 25, 50, 100]}: the two smallest
RowsPerPageOptions == {10, 25}

\* useState(25)
InitialRowsPerPage == 25

\* the columns of the Flights table whose TableSortLabel the model clicks
\* (pilot_name, drone_name and duration are sorted as location_name is)
FlightSortColumns == {"flight_date", "location_name"}

\* parseInt of a string of decimal digits
RECURSIVE ParseDigits(_)
ParseDigits(str) ==
  IF str = <<>> THEN 0
  ELSE ParseDigits(SubSeq(str, 1, Len(str) - 1)) * 10 + (str[Len(str)] - 48)

\* filters.x ? parseInt(filters.x) : undefined
ParseIntOrUndefined(v) == IF Truthy(v) THEN Num(ParseDigits(v.s)) ELSE Undefined

\* fetchFlights without the page offset: skip is always 0
fetchFlights_SkipZero(f, pg, rpp) ==
  [locationId |-> ParseIntOrUndefined(f.locationId),
   droneId |-> ParseIntOrUndefined(f.droneId),
   startDate |-> f.startDate,
   endDate |-> f.endDate,
   skip |-> 0,
   limit |-> rpp]

\* fetchFlights: the getFlights call made for filters f, page pg and
\* rowsPerPage rpp
fetchFlights(f, pg, rpp) ==
  [locationId |-> ParseIntOrUndefined(f.locationId),
   droneId |-> ParseIntOrUndefined(f.droneId),
   startDate |-> f.startDate,
   endDate |-> f.endDate,
   skip |-> pg * rpp,
   limit |-> rpp]

\* a flight of the server's table: flights are numbered in date order,
\* drone 1 flew the first five, every second flight has location 1
Flight(i) ==
  [id |-> i,
   drone_id |-> IF i <= 5 THEN 1 ELSE 2,
   location_id |-> IF i % 2 = 1 THEN 1 ELSE 0,
   on_or_after_d |-> i > 6]

\* the server's table
AllFlights == [i \in 1..ServerCount |-> Flight(i)]

\* the server's answer to GET /flights/ (getFlights omits every falsy
\* parameter): the flights that match, cut to skip and limit, and their
\* number
ServerResponse(req) ==
  LET Matches(f) ==
        /\ Truthy(req.droneId) => f.drone_id = req.droneId.n
        /\ Truthy(req.locationId) => f.location_id = req.locationId.n
        /\ Truthy(req.startDate) => f.on_or_after_d
        /\ Truthy(req.endDate) => ~f.on_or_after_d
      all == SelectSeq(AllFlights, Matches)
      last == IF req.skip + req.limit < Len(all) THEN req.skip + req.limit ELSE Len(all)
  IN  [flights |-> SubSeq(all, req.skip + 1, last), total_flights |-> Len(all)]

\* the state after construction: filters from the URL's drone_id, page 0,
\* 25 rows per page, sorted by flight_date descending,
\* and the fetch that the effect issues on mount
FlightsInit ==
  /\ \E d \in FilterValues("droneId") :
       filters = [droneId |-> d, locationId |-> Empty, startDate |-> Empty, endDate |-> Empty]
  /\ page = 0
  /\ rowsPerPage = InitialRowsPerPage
  /\ order = "desc"
  /\ orderBy = "flight_date"
  /\ flights = <<>>
  /\ totalFlights = 0
  /\ requests = SetToBag({fetchFlights(filters, page, rowsPerPage)})
  /\ flightsPc = "mounted"
  /\ lastSettled = "none"
  /\ anyRejected = FALSE

FlightsIdle ==
  /\ filters = [droneId |-> Empty, locationId |-> Empty, startDate |-> Empty, endDate |-> Empty]
  /\ page = 0
  /\ rowsPerPage = InitialRowsPerPage
  /\ order = "desc"
  /\ orderBy = "flight_date"
  /\ flights = <<>>
  /\ totalFlights = 0
  /\ requests = EmptyBag
  /\ flightsPc = "idle"
  /\ lastSettled = "none"
  /\ anyRejected = FALSE

\* useEffect(() => { fetchFlights(); }, [filters, fetchFlights, page,
\* rowsPerPage]): the effect that follows a render with the new state
FetchEffect(f, pg, rpp) == requests' = requests (+) SetToBag({fetchFlights(f, pg, rpp)})

\* setFilters(prev => ({ ...prev, [name]: value }))
SetFilters(name, value) == filters' = [filters EXCEPT ![name] = value]

\* handleFilterInputChange (the date fields) and the fetch effect
handleFilterInputChange ==
  /\ flightsPc = "mounted"
  /\ BagCardinality(requests) < MaxPending
  /\ \E name \in InputFilterNames : \E value \in FilterValues(name) \ {filters[name]} :
       SetFilters(name, value)
  /\ FetchEffect(filters', page, rowsPerPage)
  /\ UNCHANGED <<page, rowsPerPage, order, orderBy, flights, totalFlights, flightsPc>>
  /\ UNCHANGED <<lastSettled, anyRejected>>
  /\ UNCHANGED notFlightsVars

\* handleFilterSelectChange (the drone and location selects) and the fetch
\* effect
handleFilterSelectChange ==
  /\ flightsPc = "mounted"
  /\ BagCardinality(requests) < MaxPending
  /\ \E name \in SelectFilterNames : \E value \in FilterValues(name) \ {filters[name]} :
       SetFilters(name, value)
  /\ FetchEffect(filters', page, rowsPerPage)
  /\ UNCHANGED <<page, rowsPerPage, order, orderBy, flights, totalFlights, flightsPc>>
  /\ UNCHANGED <<lastSettled, anyRejected>>
  /\ UNCHANGED notFlightsVars

\* the last page TablePagination lets the user turn to
LastPage ==
  LET pages == (totalFlights + rowsPerPage - 1) \div rowsPerPage
  IN  IF pages > 0 THEN pages - 1 ELSE 0

\* handleChangePage, called by the next and previous buttons of
\* TablePagination, and the fetch effect
handleChangePage ==
  /\ flightsPc = "mounted"
  /\ BagCardinality(requests) < MaxPending
  /\ \E newPage \in {page - 1, page + 1} :
       /\ newPage >= 0
       /\ newPage <= MaxPage
       /\ newPage > page => page < LastPage
       /\ page' = newPage
  /\ FetchEffect(filters, page', rowsPerPage)
  /\ UNCHANGED <<filters, rowsPerPage, order, orderBy, flights, totalFlights, flightsPc>>
  /\ UNCHANGED <<lastSettled, anyRejected>>
  /\ UNCHANGED notFlightsVars

\* handleChangeRowsPerPage without setPage(0)
handleChangeRowsPerPage_KeepsPage ==
  /\ flightsPc = "mounted"
  /\ BagCardinality(requests) < MaxPending
  /\ \E value \in RowsPerPageOptions \ {rowsPerPage} : rowsPerPage' = value
  /\ FetchEffect(filters, page, rowsPerPage')
  /\ UNCHANGED <<filters, page, order, orderBy, flights, totalFlights, flightsPc>>
  /\ UNCHANGED <<lastSettled, anyRejected>>
  /\ UNCHANGED notFlightsVars

\* handleChangeRowsPerPage and the fetch effect
handleChangeRowsPerPage ==
  /\ flightsPc = "mounted"
  /\ BagCardinality(requests) < MaxPending
  /\ \E value \in RowsPerPageOptions \ {rowsPerPage} : rowsPerPage' = value
  /\ page' = 0
  /\ FetchEffect(filters, page', rowsPerPage')
  /\ UNCHANGED <<filters, order, orderBy, flights, totalFlights, flightsPc>>
  /\ UNCHANGED <<lastSettled, anyRejected>>
  /\ UNCHANGED notFlightsVars

\* handleRequestSort that also turns back to page 0, which re-fetches
handleRequestSort_Refetches ==
  /\ flightsPc = "mounted"
  /\ BagCardinality(requests) < MaxPending
  /\ \E property \in FlightSortColumns :
       LET isAsc == orderBy = property /\ order = "asc" IN
         /\ order' = IF isAsc THEN "desc" ELSE "asc"
         /\ orderBy' = property
  /\ page' = 0
  /\ FetchEffect(filters, page', rowsPerPage)
  /\ UNCHANGED <<filters, rowsPerPage, flights, totalFlights, flightsPc>>
  /\ UNCHANGED <<lastSettled, anyRejected>>
  /\ UNCHANGED notFlightsVars

\* handleRequestSort that toggles the direction whatever column is clicked
handleRequestSort_IgnoresField ==
  /\ flightsPc = "mounted"
  /\ \E property \in FlightSortColumns :
       LET isAsc == order = "asc" IN
         /\ order' = IF isAsc THEN "desc" ELSE "asc"
         /\ orderBy' = property
  /\ UNCHANGED <<filters, page, rowsPerPage, flights, totalFlights, requests, flightsPc>>
  /\ UNCHANGED <<lastSettled, anyRejected>>
  /\ UNCHANGED notFlightsVars

\* handleRequestSort(property)
handleRequestSort ==
  /\ flightsPc = "mounted"
  /\ \E property \in FlightSortColumns :
       LET isAsc == orderBy = property /\ order = "asc" IN
         /\ order' = IF isAsc THEN "desc" ELSE "asc"
         /\ orderBy' = property
  /\ UNCHANGED <<filters, page, rowsPerPage, flights, totalFlights, requests, flightsPc>>
  /\ UNCHANGED <<lastSettled, anyRejected>>
  /\ UNCHANGED notFlightsVars

\* FetchResolve that applies a response only if it answers the call for the
\* current filters, page and rowsPerPage
FetchResolve_DropsSuperseded ==
  /\ flightsPc = "mounted"
  /\ \E req \in BagToSet(requests) :
       LET response == ServerResponse(req) IN
         /\ IF req = fetchFlights(filters, page, rowsPerPage)
            THEN /\ flights' = response.flights
                 /\ totalFlights' = response.total_flights
            ELSE UNCHANGED <<flights, totalFlights>>
         /\ requests' = requests (-) SetToBag({req})
  /\ lastSettled' = "resolved"
  /\ UNCHANGED anyRejected
  /\ UNCHANGED <<filters, page, rowsPerPage, order, orderBy, flightsPc>>
  /\ UNCHANGED notFlightsVars

\* an outstanding getFlights call resolves: setFlights, setTotalFlights
FetchResolve ==
  /\ flightsPc = "mounted"
  /\ \E req \in BagToSet(requests) :
       LET response == ServerResponse(req) IN
         /\ flights' = response.flights
         /\ totalFlights' = response.total_flights
         /\ requests' = requests (-) SetToBag({req})
  /\ lastSettled' = "resolved"
  /\ UNCHANGED anyRejected
  /\ UNCHANGED <<filters, page, rowsPerPage, order, orderBy, flightsPc>>
  /\ UNCHANGED notFlightsVars

\* FetchFail that empties the table
FetchFail_ClearsFlights ==
  /\ flightsPc = "mounted"
  /\ \E req \in BagToSet(requests) : requests' = requests (-) SetToBag({req})
  /\ flights' = <<>>
  /\ totalFlights' = 0
  /\ lastSettled' = "rejected"
  /\ anyRejected' = TRUE
  /\ UNCHANGED <<filters, page, rowsPerPage, order, orderBy, flightsPc>>
  /\ UNCHANGED notFlightsVars

\* an outstanding getFlights call rejects: console.error
FetchFail ==
  /\ flightsPc = "mounted"
  /\ \E req \in BagToSet(requests) : requests' = requests (-) SetToBag({req})
  /\ lastSettled' = "rejected"
  /\ anyRejected' = TRUE
  /\ UNCHANGED <<filters, page, rowsPerPage, order, orderBy, flights, totalFlights, flightsPc>>
  /\ UNCHANGED notFlightsVars

\* ------------------------------------------------------------------------
\* Flights page: the rows of the table (sortedFlights)
\* ------------------------------------------------------------------------
\* 'ZZZ' and 0, the values the enrichment puts in place of a missing
\* location name and a missing duration
LocationSentinel == Str(<<90, 90, 90>>)
DurationSentinel == Num(0)

\* names of flight locations: 'A' and 'a'
LocationNames == {Str(<<65>>), Str(<<97>>)}

\* durations of flights, in seconds
Durations == {Num(1), Num(2)}

\* a flight of a response, as far as the table sorts on it:
\* flight_location?.name (undefined for a flight without a location) and
\* duration
RowFlight(id, locationName, duration) ==
  [id |-> id, flight_location_name |-> locationName, duration |-> duration]

\* the element of sortable built from flight f
SortableFlight(f) ==
  [id |-> f.id,
   flight_location_name |-> f.flight_location_name,
   location_name |-> IF Truthy(f.flight_location_name) THEN f.flight_location_name
                     ELSE LocationSentinel,
   duration |-> IF Truthy(f.duration) THEN f.duration ELSE DurationSentinel]

\* Sortable that leaves out the flights without a location
Sortable_DropsUnlocated(fs) ==
  LET HasLocation(f) == Truthy(f.flight_location_name)
      located == SelectSeq(fs, HasLocation)
  IN  [i \in 1..Len(located) |-> SortableFlight(located[i])]

\* sortable = flights.map(f => ({ ...f, ... }))
Sortable(fs) == [i \in 1..Len(fs) |-> SortableFlight(fs[i])]

\* the columns of the table the model sorts on
RowSortColumns == {"location_name", "duration"}

\* the values a flight of a response can carry in the field behind column
RowColumnValues(column) ==
  IF column = "location_name" THEN LocationNames \cup {Undefined}
  ELSE Durations \cup {Undefined}

\* the flights whose field behind column holds col[1], col[2], ...
RowFlightsOf(column, col) ==
  [i \in 1..Len(col) |->
     IF column = "location_name" THEN RowFlight(i, col[i], Num(1))
     ELSE RowFlight(i, Undefined, col[i])]

\* a render of the table for the flights of a response of at most MaxRows
\* flights and any sort state
RowsInit ==
  /\ rowOrder \in Orders
  /\ rowOrderBy \in RowSortColumns
  /\ \E n \in 0..MaxRows : \E col \in [1..n -> RowColumnValues(rowOrderBy)] :
       rowFlights = RowFlightsOf(rowOrderBy, col)
  /\ sortedFlights = <<>>
  /\ rowsPc = "render"

RowsIdle ==
  /\ rowOrder = "desc"
  /\ rowOrderBy = "location_name"
  /\ rowFlights = <<>>
  /\ sortedFlights = <<>>
  /\ rowsPc = "idle"

\* sortedFlights = useMemo(() => stableSort(sortable, getComparator(order,
\* orderBy)))
ComputeSortedFlights ==
  /\ rowsPc = "render"
  /\ sortedFlights' \in stableSort(Sortable(rowFlights),
                                   getComparator("Flights", rowOrder, rowOrderBy))
  /\ rowsPc' = "rendered"
  /\ UNCHANGED <<rowFlights, rowOrder, rowOrderBy>>
  /\ UNCHANGED notRowsVars

RowsNext == ComputeSortedFlights

\* ------------------------------------------------------------------------
\* Create and import forms: Pilots, Flights (manual flight), Admin (import)
\* ------------------------------------------------------------------------
\* code units 32 (space) and 97 ('a'): what is typed into the name field
NameUnits == {32, 97}
PilotNameInputs == { Str(x) : x \in UNION { [1..n -> NameUnits] : n \in 0..MaxNameLen } }

\* String.prototype.trim on a string of the model: leading and trailing
\* spaces removed
RECURSIVE Trim(_)
Trim(str) ==
  IF str = <<>> THEN <<>>
  ELSE IF str[1] = 32 THEN Trim(Tail(str))
  ELSE IF str[Len(str)] = 32 THEN Trim(SubSeq(str, 1, Len(str) - 1))
  ELSE str

\* the pages that carry the forms
FormPages == {"Pilots", "Flights", "Admin"}

\* the fields of newFlightData that handleCreateFlight requires, and the
\* value each holds once the user has chosen one
RequiredFlightFields == {"pilotId", "droneId", "date"}
FlightFieldValue(field) == IF field = "date" THEN DateD ELSE IdOne
EmptyFlightData == [pilotId |-> Empty, droneId |-> Empty, date |-> Empty]

\* feedback.type of the Admin page
NoFeedback == ""

FormsInit ==
  /\ formPage \in FormPages
  /\ newPilotName = Empty
  /\ newFlightData = EmptyFlightData
  /\ importFile = Null
  /\ importZipFile = Null
  /\ feedback = NoFeedback
  /\ confirmed = "none"
  /\ pending = {}
  /\ sent = <<>>
  /\ listState = <<>>
  /\ serverRecords = <<>>
  /\ lastCall = "none"

FormsIdle ==
  /\ formPage = "none"
  /\ newPilotName = Empty
  /\ newFlightData = EmptyFlightData
  /\ importFile = Null
  /\ importZipFile = Null
  /\ feedback = NoFeedback
  /\ confirmed = "none"
  /\ pending = {}
  /\ sent = <<>>
  /\ listState = <<>>
  /\ serverRecords = <<>>
  /\ lastCall = "none"

\* a request goes out and its answer is awaited
Send(api) ==
  /\ Len(sent) < MaxSent
  /\ api \notin pending
  /\ sent' = Append(sent, api)
  /\ pending' = pending \cup {api}

\* Pilots: onChange of the name field
setNewPilotName ==
  /\ formPage = "Pilots"
  /\ \E value \in PilotNameInputs \ {newPilotName} : newPilotName' = value
  /\ lastCall' = "setNewPilotName"
  /\ UNCHANGED <<formPage, newFlightData, importFile, importZipFile, feedback, confirmed,
                 pending, sent, listState, serverRecords>>
  /\ UNCHANGED notFormsVars

\* handleCreatePilot that tests newPilotName === '' without trimming
handleCreatePilot_NoTrim ==
  /\ formPage = "Pilots"
  /\ IF newPilotName.s = <<>>
     THEN UNCHANGED <<pending, sent, serverRecords>>
     ELSE /\ Send("createPilot")
          /\ serverRecords' = Append(serverRecords, Len(serverRecords) + 1)
  /\ lastCall' = "handleCreatePilot"
  /\ UNCHANGED <<formPage, newPilotName, newFlightData, importFile, importZipFile, feedback,
                 confirmed, listState>>
  /\ UNCHANGED notFormsVars

\* handleCreatePilot up to its await: return on a blank name, else
\* createPilot(newPilotName)
handleCreatePilot ==
  /\ formPage = "Pilots"
  /\ IF Trim(newPilotName.s) = <<>>
     THEN UNCHANGED <<pending, sent, serverRecords>>
     ELSE /\ Send("createPilot")
          /\ serverRecords' = Append(serverRecords, Len(serverRecords) + 1)
  /\ lastCall' = "handleCreatePilot"
  /\ UNCHANGED <<formPage, newPilotName, newFlightData, importFile, importZipFile, feedback,
                 confirmed, listState>>
  /\ UNCHANGED notFormsVars

\* handleCreatePilot after createPilot resolved: setNewPilotName(''),
\* fetchPilots() and its setPilots; if createPilot rejected nothing follows
createPilotSettled ==
  /\ "createPilot" \in pending
  /\ \E ok \in BOOLEAN :
       IF ok
       THEN /\ Len(sent) < MaxSent
            /\ newPilotName' = Empty
            /\ sent' = Append(sent, "getPilots")
            /\ listState' = serverRecords
       ELSE UNCHANGED <<newPilotName, sent, listState>>
  /\ pending' = pending \ {"createPilot"}
  /\ lastCall' = "createPilotSettled"
  /\ UNCHANGED <<formPage, newFlightData, importFile, importZipFile, feedback, confirmed,
                 serverRecords>>
  /\ UNCHANGED notFormsVars

\* Flights: onChange of the pilot and drone selects and of the date field
setNewFlightData ==
  /\ formPage = "Flights"
  /\ \E field \in RequiredFlightFields :
       \E value \in {Empty, FlightFieldValue(field)} \ {newFlightData[field]} :
         newFlightData' = [newFlightData EXCEPT ![field] = value]
  /\ lastCall' = "setNewFlightData"
  /\ UNCHANGED <<formPage, newPilotName, importFile, importZipFile, feedback, confirmed,
                 pending, sent, listState, serverRecords>>
  /\ UNCHANGED notFormsVars

\* handleCreateFlight up to its await: return unless pilot, drone and date
\* are set, else createFlight(...)
handleCreateFlight ==
  /\ formPage = "Flights"
  /\ IF \E field \in RequiredFlightFields : ~Truthy(newFlightData[field])
     THEN UNCHANGED <<pending, sent, serverRecords>>
     ELSE /\ Send("createFlight")
          /\ serverRecords' = Append(serverRecords, Len(serverRecords) + 1)
  /\ lastCall' = "handleCreateFlight"
  /\ UNCHANGED <<formPage, newPilotName, newFlightData, importFile, importZipFile, feedback,
                 confirmed, listState>>
  /\ UNCHANGED notFormsVars

\* handleCreateFlight after createFlight resolved: the form is cleared,
\* fetchFlights() and its setFlights
createFlightSettled ==
  /\ "createFlight" \in pending
  /\ \E ok \in BOOLEAN :
       IF ok
       THEN /\ Len(sent) < MaxSent
            /\ newFlightData' = EmptyFlightData
            /\ sent' = Append(sent, "getFlights")
            /\ listState' = serverRecords
       ELSE UNCHANGED <<newFlightData, sent, listState>>
  /\ pending' = pending \ {"createFlight"}
  /\ lastCall' = "createFlightSettled"
  /\ UNCHANGED <<formPage, newPilotName, importFile, importZipFile, feedback, confirmed,
                 serverRecords>>
  /\ UNCHANGED notFormsVars

\* Admin: handleFileChange, with or without a file in event.target.files
handleFileChange ==
  /\ formPage = "Admin"
  /\ \E hasFile \in BOOLEAN :
       IF hasFile
       THEN importFile' = Str(<<97>>) /\ feedback' = NoFeedback
       ELSE UNCHANGED <<importFile, feedback>>
  /\ lastCall' = "handleFileChange"
  /\ UNCHANGED <<formPage, newPilotName, newFlightData, importZipFile, confirmed, pending,
                 sent, listState, serverRecords>>
  /\ UNCHANGED notFormsVars

\* Admin: handleZipFileChange
handleZipFileChange ==
  /\ formPage = "Admin"
  /\ \E hasFile \in BOOLEAN :
       IF hasFile
       THEN importZipFile' = Str(<<97>>) /\ feedback' = NoFeedback
       ELSE UNCHANGED <<importZipFile, feedback>>
  /\ lastCall' = "handleZipFileChange"
  /\ UNCHANGED <<formPage, newPilotName, newFlightData, importFile, confirmed, pending,
                 sent, listState, serverRecords>>
  /\ UNCHANGED notFormsVars

\* handleImport up to its await: without a file an error is shown; with a
\* file window.confirm is asked and importDatabase goes out only on OK
handleImport ==
  /\ formPage = "Admin"
  /\ IF importFile = Null
     THEN /\ feedback' = "error"
          /\ UNCHANGED <<confirmed, pending, sent>>
     ELSE \E answer \in {"ok", "cancel"} :
            /\ confirmed' = answer
            /\ IF answer = "cancel"
               THEN UNCHANGED <<feedback, pending, sent>>
               ELSE Send("importDatabase") /\ UNCHANGED feedback
  /\ lastCall' = "handleImport"
  /\ UNCHANGED <<formPage, newPilotName, newFlightData, importFile, importZipFile, listState,
                 serverRecords>>
  /\ UNCHANGED notFormsVars

\* handleImport after importDatabase settled: success feedback and
\* setImportFile(null), or the error feedback of the catch
importDatabaseSettled ==
  /\ "importDatabase" \in pending
  /\ \E ok \in BOOLEAN :
       IF ok
       THEN feedback' = "success" /\ importFile' = Null
       ELSE feedback' = "error" /\ UNCHANGED importFile
  /\ pending' = pending \ {"importDatabase"}
  /\ lastCall' = "importDatabaseSettled"
  /\ UNCHANGED <<formPage, newPilotName, newFlightData, importZipFile, confirmed, sent,
                 listState, serverRecords>>
  /\ UNCHANGED notFormsVars

\* handleImportZip up to its await
handleImportZip ==
  /\ formPage = "Admin"
  /\ IF importZipFile = Null
     THEN /\ feedback' = "error"
          /\ UNCHANGED <<confirmed, pending, sent>>
     ELSE \E answer \in {"ok", "cancel"} :
            /\ confirmed' = answer
            /\ IF answer = "cancel"
               THEN UNCHANGED <<feedback, pending, sent>>
               ELSE Send("importFullBackup") /\ UNCHANGED feedback
  /\ lastCall' = "handleImportZip"
  /\ UNCHANGED <<formPage, newPilotName, newFlightData, importFile, importZipFile, listState,
                 serverRecords>>
  /\ UNCHANGED notFormsVars

\* handleImportZip after importFullBackup settled
importFullBackupSettled ==
  /\ "importFullBackup" \in pending
  /\ \E ok \in BOOLEAN :
       IF ok
       THEN feedback' = "success" /\ importZipFile' = Null
       ELSE feedback' = "error" /\ UNCHANGED importZipFile
  /\ pending' = pending \ {"importFullBackup"}
  /\ lastCall' = "importFullBackupSettled"
  /\ UNCHANGED <<formPage, newPilotName, newFlightData, importFile, confirmed, sent,
                 listState, serverRecords>>
  /\ UNCHANGED notFormsVars

\* ------------------------------------------------------------------------
\* FlightDetail: the altitude-offset save timer and the notes editor
\* ------------------------------------------------------------------------
\* the screens modelled below, one of which is mounted in a behaviour
Screens ==
  {"FlightDetail", "MapDisplay3D", "FlightLocations", "Admin", "DroneDetail", "BatteryPackDetail"}

\* const [altitudeOffset, setAltitudeOffset] = useState(50)
InitialAltitudeOffset == 50

\* the numbers the altitude-offset field is set to; 0 is the falsy one
Offsets == {0, InitialAltitudeOffset, 60}

\* the texts of flight.notes and of the notes textarea
NoteTexts == {"", "a", "b"}

\* flight === null, and flight.flight_location === null
NoFlight == [id |-> 0]
NoLocation == [id |-> 0]

\* the flights the server holds for flightId: with or without a flight
\* location, whose altitude_offset is unset (0) or 60
ServerFlights ==
  { [id |-> 1, flight_location |-> loc, notes |-> n] :
      loc \in {NoLocation} \cup { [id |-> 1, altitude_offset |-> k] : k \in {0, 60} },
      n \in {"", "a"} }

\* initialNotes={flight.notes || ''}
initialNotes(fl) == IF fl = NoFlight THEN "" ELSE fl.notes

\* the debounce effect that forgets clearTimeout in its cleanup
DebounceEffect_NoClear(fl, off) ==
  IF fl = NoFlight \/ fl.flight_location = NoLocation
  THEN timers' = timers /\ handler' = <<>>
  ELSE timers' = timers (+) SetToBag({off}) /\ handler' = <<off>>

\* useEffect(..., [altitudeOffset, flight]) run again for flight fl and
\* offset off: the cleanup of the previous run (clearTimeout(handler)),
\* then setTimeout(() => updateFlightLocationAltitudeOffset(..., off), 1000)
\* unless !flight || !flight.flight_location
DebounceEffect(fl, off) ==
  LET cleared == IF handler = <<>> THEN timers ELSE timers (-) SetToBag({handler[1]}) IN
    IF fl = NoFlight \/ fl.flight_location = NoLocation
    THEN timers' = cleared /\ handler' = <<>>
    ELSE timers' = cleared (+) SetToBag({off}) /\ handler' = <<off>>

\* a getFlightById call of fetchFlightDetails settles: setFlight,
\* setAltitudeOffset when the location has a truthy altitude_offset, and
\* the effects of the render that follows; the first flight mounts the
\* NotesEditor, whose notes state starts as initialNotes. A rejection
\* leaves the state as it is (fetchFlightDetails has no catch).
fetchFlightDetailsSettled ==
  /\ screen = "FlightDetail"
  /\ fdRequests > 0
  /\ fdRequests' = fdRequests - 1
  /\ \E ok \in BOOLEAN :
       IF ok /\ fdMounted
       THEN LET response == serverFlight
                offset == IF /\ response.flight_location # NoLocation
                             /\ response.flight_location.altitude_offset # 0
                          THEN response.flight_location.altitude_offset
                          ELSE altitudeOffset
            IN  /\ flight' = response
                /\ altitudeOffset' = offset
                /\ DebounceEffect(response, offset)
                /\ notes' = IF flight = NoFlight THEN initialNotes(response) ELSE notes
       ELSE UNCHANGED <<flight, altitudeOffset, timers, handler, notes>>
  /\ UNCHANGED <<fdMounted, serverFlight, lastWrite, writeCount, userChanged, editing>>
  /\ UNCHANGED <<screen, viewerVars, locVars, adminVars, detailVars>>
  /\ UNCHANGED notScreensVars

\* onChange of the Altitude Offset field: setAltitudeOffset(Number(value))
\* with a value other than the current one, and the debounce effect
setAltitudeOffset ==
  /\ screen = "FlightDetail"
  /\ fdMounted
  /\ flight # NoFlight
  /\ \E value \in Offsets \ {altitudeOffset} :
       /\ altitudeOffset' = value
       /\ DebounceEffect(flight, value)
  /\ userChanged' = TRUE
  /\ UNCHANGED <<fdMounted, flight, fdRequests, serverFlight, lastWrite, writeCount,
                 editing, notes>>
  /\ UNCHANGED <<screen, viewerVars, locVars, adminVars, detailVars>>
  /\ UNCHANGED notScreensVars

\* a pending timer expires: updateFlightLocationAltitudeOffset(
\* flight.flight_location.id, altitudeOffset) with the offset of the render
\* that set the timer; the server stores it
timerExpires ==
  /\ screen = "FlightDetail"
  /\ writeCount < MaxWrites
  /\ \E off \in BagToSet(timers) :
       /\ timers' = timers (-) SetToBag({off})
       /\ lastWrite' = <<off>>
       /\ serverFlight' =
            [serverFlight EXCEPT !.flight_location = [id |-> 1, altitude_offset |-> off]]
  /\ writeCount' = writeCount + 1
  /\ UNCHANGED <<fdMounted, flight, altitudeOffset, handler, fdRequests, userChanged,
                 editing, notes>>
  /\ UNCHANGED <<screen, viewerVars, locVars, adminVars, detailVars>>
  /\ UNCHANGED notScreensVars

\* FlightDetail unmounts: the cleanup of the debounce effect
flightDetailUnmount ==
  /\ screen = "FlightDetail"
  /\ fdMounted
  /\ fdMounted' = FALSE
  /\ timers' = IF handler = <<>> THEN timers ELSE timers (-) SetToBag({handler[1]})
  /\ handler' = <<>>
  /\ UNCHANGED <<flight, altitudeOffset, fdRequests, serverFlight, lastWrite, writeCount,
                 userChanged, editing, notes>>
  /\ UNCHANGED <<screen, viewerVars, locVars, adminVars, detailVars>>
  /\ UNCHANGED notScreensVars

\* NotesEditor: the Edit Notes button, setEditing(true)
editNotes ==
  /\ screen = "FlightDetail"
  /\ fdMounted
  /\ flight # NoFlight
  /\ ~editing
  /\ editing' = TRUE
  /\ UNCHANGED <<fdMounted, flight, altitudeOffset, timers, handler, fdRequests, serverFlight,
                 lastWrite, writeCount, userChanged, notes>>
  /\ UNCHANGED <<screen, viewerVars, locVars, adminVars, detailVars>>
  /\ UNCHANGED notScreensVars

\* NotesEditor: onChange of the textarea, setNotes(e.target.value)
setNotes ==
  /\ screen = "FlightDetail"
  /\ fdMounted
  /\ editing
  /\ \E value \in NoteTexts \ {notes} : notes' = value
  /\ UNCHANGED <<fdMounted, flight, altitudeOffset, timers, handler, fdRequests, serverFlight,
                 lastWrite, writeCount, userChanged, editing>>
  /\ UNCHANGED <<screen, viewerVars, locVars, adminVars, detailVars>>
  /\ UNCHANGED notScreensVars

\* NotesEditor: the Cancel button, setEditing(false)
cancelNotes ==
  /\ screen = "FlightDetail"
  /\ fdMounted
  /\ editing
  /\ editing' = FALSE
  /\ UNCHANGED <<fdMounted, flight, altitudeOffset, timers, handler, fdRequests, serverFlight,
                 lastWrite, writeCount, userChanged, notes>>
  /\ UNCHANGED <<screen, viewerVars, locVars, adminVars, detailVars>>
  /\ UNCHANGED notScreensVars

\* NotesEditor handleSave with FlightDetail's handleSaveNotes as onSave:
\* await updateFlight(..., newNotes), fetchFlightDetails(), then
\* setEditing(false); a rejected updateFlight leaves the editor open
handleSaveNotes ==
  /\ screen = "FlightDetail"
  /\ fdMounted
  /\ editing
  /\ fdRequests < MaxPending
  /\ \E ok \in BOOLEAN :
       IF ok
       THEN /\ serverFlight' = [serverFlight EXCEPT !.notes = notes]
            /\ fdRequests' = fdRequests + 1
            /\ editing' = FALSE
       ELSE UNCHANGED <<serverFlight, fdRequests, editing>>
  /\ UNCHANGED <<fdMounted, flight, altitudeOffset, timers, handler, lastWrite, writeCount,
                 userChanged, notes>>
  /\ UNCHANGED <<screen, viewerVars, locVars, adminVars, detailVars>>
  /\ UNCHANGED notScreensVars

\* ------------------------------------------------------------------------
\* MapDisplay3D: the effect that creates and destroys the Cesium viewer
\* ------------------------------------------------------------------------
\* initViewer resumes after await createWorldTerrainAsync(): new
\* Viewer(cesiumContainer.current, ...) and setIsViewerInitialized(true).
\* The container was tested before the await only; once the cleanup has
\* run the ref holds the element still (the viewer is constructed) or
\* null (the constructor throws). A rejected promise ends initViewer.
terrainSettled ==
  /\ screen = "MapDisplay3D"
  /\ viewerPc = "awaiting"
  /\ viewerPc' = "done"
  /\ \E ok \in BOOLEAN : \E attached \in {a \in BOOLEAN : ~cleanupRan => a} :
       IF ok /\ attached
       THEN /\ viewerRef' = <<1>>
            /\ liveViewers' = liveViewers \cup {1}
            /\ isViewerInitialized' = ~cleanupRan
       ELSE UNCHANGED <<viewerRef, liveViewers, isViewerInitialized>>
  /\ UNCHANGED cleanupRan
  /\ UNCHANGED <<screen, fdVars, locVars, adminVars, detailVars>>
  /\ UNCHANGED notScreensVars

\* the cleanup of the effect, run when MapDisplay3D unmounts: destroy the
\* viewer viewerRef holds, if any, and setIsViewerInitialized(false)
viewerCleanup ==
  /\ screen = "MapDisplay3D"
  /\ ~cleanupRan
  /\ cleanupRan' = TRUE
  /\ liveViewers' = IF viewerRef = <<>> THEN liveViewers ELSE liveViewers \ {viewerRef[1]}
  /\ viewerRef' = <<>>
  /\ isViewerInitialized' = FALSE
  /\ UNCHANGED viewerPc
  /\ UNCHANGED <<screen, fdVars, locVars, adminVars, detailVars>>
  /\ UNCHANGED notScreensVars

\* ------------------------------------------------------------------------
\* FlightLocations: the location list, the statistics cache, loadingStats
\* ------------------------------------------------------------------------
\* the ids of the flight locations the server lists
LocationIds == {1, 2}

\* a getFlightLocations call of fetchLocations settles:
\* setLocations(response.data); the rows of the response carry the optional
\* images field or not. A rejection leaves the list (no catch).
fetchLocationsSettled ==
  /\ screen = "FlightLocations"
  /\ listRequests > 0
  /\ listRequests' = listRequests - 1
  /\ \E ok \in BOOLEAN : \E withImages \in BOOLEAN :
       IF ok
       THEN locations' = [id \in LocationIds |-> [id |-> id, images |-> withImages]]
       ELSE UNCHANGED locations
  /\ UNCHANGED <<locationStatistics, expanded, loadingStats, statsRequests>>
  /\ UNCHANGED <<screen, fdVars, viewerVars, adminVars, detailVars>>
  /\ UNCHANGED notScreensVars

\* fetchStatistics(locationId) up to its await: setLoadingStats(locationId)
\* and the two requests of Promise.all
fetchStatistics(locationId) ==
  /\ loadingStats' = <<locationId>>
  /\ statsRequests' = statsRequests (+) SetToBag({locationId})

\* handleAccordionChange(panelId)(_, isExpanded): setExpanded, and
\* fetchStatistics(panelId) when the panel opens without cached statistics
handleAccordionChange ==
  /\ screen = "FlightLocations"
  /\ BagCardinality(statsRequests) < MaxPending
  /\ \E panelId \in DOMAIN locations :
       LET isExpanded == expanded # <<panelId>> IN
         /\ expanded' = IF isExpanded THEN <<panelId>> ELSE <<>>
         /\ IF isExpanded /\ panelId \notin locationStatistics
            THEN fetchStatistics(panelId)
            ELSE UNCHANGED <<loadingStats, statsRequests>>
  /\ UNCHANGED <<locations, locationStatistics, listRequests>>
  /\ UNCHANGED <<screen, fdVars, viewerVars, adminVars, detailVars>>
  /\ UNCHANGED notScreensVars

\* fetchStatistics(locationId) after its await: the Promise.all resolved
\* (setLocationStatistics, the images put on the location of the list) or
\* rejected (console.error), then setLoadingStats(null)
fetchStatisticsSettled ==
  /\ screen = "FlightLocations"
  /\ \E locationId \in BagToSet(statsRequests) : \E ok \in BOOLEAN :
       /\ statsRequests' = statsRequests (-) SetToBag({locationId})
       /\ IF ok
          THEN /\ locationStatistics' = locationStatistics \cup {locationId}
               /\ locations' = [id \in DOMAIN locations |->
                                 IF id = locationId
                                 THEN [locations[id] EXCEPT !.images = TRUE]
                                 ELSE locations[id]]
          ELSE UNCHANGED <<locationStatistics, locations>>
  /\ loadingStats' = <<>>
  /\ UNCHANGED <<expanded, listRequests>>
  /\ UNCHANGED <<screen, fdVars, viewerVars, adminVars, detailVars>>
  /\ UNCHANGED notScreensVars

\* handleSaveEdit, handleDeleteLocation and handleSetFlightLocationValidity
\* after their request resolved: fetchLocations()
handleSaveEdit ==
  /\ screen = "FlightLocations"
  /\ DOMAIN locations # {}
  /\ listRequests < MaxPending
  /\ listRequests' = listRequests + 1
  /\ UNCHANGED <<locations, locationStatistics, expanded, loadingStats, statsRequests>>
  /\ UNCHANGED <<screen, fdVars, viewerVars, adminVars, detailVars>>
  /\ UNCHANGED notScreensVars

\* handleImageUpload and handleImageDelete after their request resolved:
\* fetchStatistics(locationId) for the panel that is open
handleImageUpload ==
  /\ screen = "FlightLocations"
  /\ BagCardinality(statsRequests) < MaxPending
  /\ expanded # <<>>
  /\ fetchStatistics(expanded[1])
  /\ UNCHANGED <<locations, locationStatistics, expanded, listRequests>>
  /\ UNCHANGED <<screen, fdVars, viewerVars, adminVars, detailVars>>
  /\ UNCHANGED notScreensVars

\* ------------------------------------------------------------------------
\* Admin: the "show DIPUL map link" switch
\* ------------------------------------------------------------------------
\* fetchSettings of the mount effect settles: setShowDipulMapLink(
\* response.data.value === 'true'), or console.error
fetchSettingsSettled ==
  /\ screen = "Admin"
  /\ settingsFetch = "pending"
  /\ settingsFetch' = "settled"
  /\ \E ok \in BOOLEAN :
       showDipulMapLink' = IF ok THEN storedSetting ELSE showDipulMapLink
  /\ UNCHANGED <<storedSetting, dipulFeedback, settingUpdates, lastUpdate>>
  /\ UNCHANGED <<screen, fdVars, viewerVars, locVars, detailVars>>
  /\ UNCHANGED notScreensVars

\* handleDipulLinkChange up to its await: newValue = event.target.checked,
\* setShowDipulMapLink(newValue), updateSetting('show_dipul_map_link', ...)
handleDipulLinkChange ==
  /\ screen = "Admin"
  /\ BagCardinality(settingUpdates) < MaxPending
  /\ LET newValue == ~showDipulMapLink IN
       /\ showDipulMapLink' = newValue
       /\ settingUpdates' = settingUpdates (+) SetToBag({newValue})
  /\ UNCHANGED <<storedSetting, dipulFeedback, settingsFetch, lastUpdate>>
  /\ UNCHANGED <<screen, fdVars, viewerVars, locVars, detailVars>>
  /\ UNCHANGED notScreensVars

\* handleDipulLinkChange after its await: the server stored the value and
\* the feedback is 'success', or the catch sets the 'error' feedback
updateSettingSettled ==
  /\ screen = "Admin"
  /\ \E newValue \in BagToSet(settingUpdates) : \E ok \in BOOLEAN :
       /\ settingUpdates' = settingUpdates (-) SetToBag({newValue})
       /\ IF ok
          THEN /\ storedSetting' = newValue
               /\ dipulFeedback' = "success"
               /\ lastUpdate' = "stored"
          ELSE /\ dipulFeedback' = "error"
               /\ lastUpdate' = "failed"
               /\ UNCHANGED storedSetting
  /\ UNCHANGED <<showDipulMapLink, settingsFetch>>
  /\ UNCHANGED <<screen, fdVars, viewerVars, locVars, detailVars>>
  /\ UNCHANGED notScreensVars

\* ------------------------------------------------------------------------
\* DroneDetail and BatteryPackDetail: the fetch behind the loading spinner
\* ------------------------------------------------------------------------
\* fetchDroneDetails settles: setDrone(foundDrone) when the list of
\* getDrones holds a drone with the requested id; nothing when it does not
\* or when getDrones rejects (no catch)
fetchDroneDetailsSettled ==
  /\ screen = "DroneDetail"
  /\ detailFetch = "pending"
  /\ \E ok \in BOOLEAN :
       /\ detailFetch' = IF ok THEN "resolved" ELSE "rejected"
       /\ drone' = IF ok /\ droneListed THEN "found" ELSE drone
  /\ UNCHANGED <<batteryPack, droneListed>>
  /\ UNCHANGED <<screen, fdVars, viewerVars, locVars, adminVars>>
  /\ UNCHANGED notScreensVars

\* fetchBatteryPack settles: setBatteryPack(response.data), or the catch
\* (console.error)
fetchBatteryPackSettled ==
  /\ screen = "BatteryPackDetail"
  /\ detailFetch = "pending"
  /\ \E ok \in BOOLEAN :
       /\ detailFetch' = IF ok THEN "resolved" ELSE "rejected"
       /\ batteryPack' = IF ok THEN "found" ELSE batteryPack
  /\ UNCHANGED <<drone, droneListed>>
  /\ UNCHANGED <<screen, fdVars, viewerVars, locVars, adminVars>>
  /\ UNCHANGED notScreensVars

\* the state after screen s has mounted and its mount effects have issued
\* their requests ("none": no screen is mounted)
ScreenState(s) ==
  /\ screen = s
  /\ fdMounted = (s = "FlightDetail")
  /\ flight = NoFlight
  /\ altitudeOffset = InitialAltitudeOffset
  /\ timers = EmptyBag
  /\ handler = <<>>
  /\ fdRequests = IF s = "FlightDetail" THEN 1 ELSE 0
  /\ serverFlight \in IF s = "FlightDetail" THEN ServerFlights ELSE {NoFlight}
  /\ lastWrite = <<>>
  /\ writeCount = 0
  /\ userChanged = FALSE
  /\ editing = FALSE
  /\ notes = ""
  /\ viewerPc = IF s = "MapDisplay3D" THEN "awaiting" ELSE "none"
  /\ viewerRef = <<>>
  /\ liveViewers = {}
  /\ cleanupRan = FALSE
  /\ isViewerInitialized = FALSE
  /\ locations = <<>>
  /\ locationStatistics = {}
  /\ expanded = <<>>
  /\ loadingStats = <<>>
  /\ statsRequests = EmptyBag
  /\ listRequests = IF s = "FlightLocations" THEN 1 ELSE 0
  /\ showDipulMapLink = TRUE
  /\ storedSetting \in IF s = "Admin" THEN BOOLEAN ELSE {TRUE}
  /\ dipulFeedback = ""
  /\ settingUpdates = EmptyBag
  /\ settingsFetch = IF s = "Admin" THEN "pending" ELSE "none"
  /\ lastUpdate = "none"
  /\ detailFetch = IF s \in {"DroneDetail", "BatteryPackDetail"} THEN "pending" ELSE "none"
  /\ drone = "null"
  /\ batteryPack = "null"
  /\ droneListed \in IF s = "DroneDetail" THEN BOOLEAN ELSE {FALSE}

ScreensInit == \E s \in Screens : ScreenState(s)

ScreensIdle == ScreenState("none")

ScreensNext ==
  \/ fetchFlightDetailsSettled
  \/ setAltitudeOffset
  \/ timerExpires
  \/ flightDetailUnmount
  \/ editNotes
  \/ setNotes
  \/ cancelNotes
  \/ handleSaveNotes
  \/ terrainSettled
  \/ viewerCleanup
  \/ fetchLocationsSettled
  \/ handleAccordionChange
  \/ fetchStatisticsSettled
  \/ handleSaveEdit
  \/ handleImageUpload
  \/ fetchSettingsSettled
  \/ handleDipulLinkChange
  \/ updateSettingSettled
  \/ fetchDroneDetailsSettled
  \/ fetchBatteryPackSettled

FormsNext ==
  \/ setNewPilotName
  \/ handleCreatePilot
  \/ createPilotSettled
  \/ setNewFlightData
  \/ handleCreateFlight
  \/ createFlightSettled
  \/ handleFileChange
  \/ handleZipFileChange
  \/ handleImport
  \/ importDatabaseSettled
  \/ handleImportZip
  \/ importFullBackupSettled

FlightsNext ==
  \/ handleFilterInputChange
  \/ handleFilterSelectChange
  \/ handleChangePage
  \/ handleChangeRowsPerPage
  \/ handleRequestSort
  \/ FetchResolve
  \/ FetchFail

MapNext ==
  \/ ComputeValid
  \/ DecimateShort
  \/ DecimateBegin
  \/ DecimateStep
  \/ DecimateEnd
  \/ ToggleShowAllPoints

CmpNext == Compare

SortNext == RunStableSort \/ RunStableSortAgain

\* one specification per component; the other components' variables rest at
\* their idle values
InitMap ==
  MapInit /\ CmpIdle /\ SortIdle /\ FlightsIdle /\ RowsIdle /\ FormsIdle /\ ScreensIdle
SpecMap == InitMap /\ [][MapNext]_vars

InitCmp ==
  CmpInit /\ SortIdle /\ MapIdle /\ FlightsIdle /\ RowsIdle /\ FormsIdle /\ ScreensIdle
SpecCmp == InitCmp /\ [][CmpNext]_vars

InitSort ==
  SortInit /\ CmpIdle /\ MapIdle /\ FlightsIdle /\ RowsIdle /\ FormsIdle /\ ScreensIdle
SpecSort == InitSort /\ [][SortNext]_vars

InitFlights ==
  FlightsInit /\ CmpIdle /\ SortIdle /\ MapIdle /\ RowsIdle /\ FormsIdle /\ ScreensIdle
SpecFlights == InitFlights /\ [][FlightsNext]_vars

InitRows ==
  RowsInit /\ CmpIdle /\ SortIdle /\ MapIdle /\ FlightsIdle /\ FormsIdle /\ ScreensIdle
SpecRows == InitRows /\ [][RowsNext]_vars

InitForms ==
  FormsInit /\ CmpIdle /\ SortIdle /\ MapIdle /\ FlightsIdle /\ RowsIdle /\ ScreensIdle
SpecForms == InitForms /\ [][FormsNext]_vars

InitScreens ==
  ScreensInit /\ CmpIdle /\ SortIdle /\ MapIdle /\ FlightsIdle /\ RowsIdle /\ FormsIdle
SpecScreens == InitScreens /\ [][ScreensNext]_vars

\* the requests of the detail pages settle: the browser ends every HTTP
\* request with a response or an error
SpecScreensFair ==
  SpecScreens /\ WF_vars(fetchDroneDetailsSettled) /\ WF_vars(fetchBatteryPackSettled)

\* ------------------------------------------------------------------------
\* Properties of the Flights page
\* ------------------------------------------------------------------------
\* the getFlights calls issued by the step
IssuedByStep(before, after) ==
  { req \in BagToSet(after) : CopiesIn(req, after) > CopiesIn(req, before) }

\* C1: a change of a filter value sets the page index to 0 before the next
\* fetch is issued, so the fetch that carries the new filter value has
\* skip = 0.
C1_FilterChangeResetsPage ==
  [][filters' # filters =>
       /\ page' = 0
       /\ \A req \in IssuedByStep(requests, requests') : req.skip = 0]_vars

\* the getFlights calls that settled in the step
SettledByStep(before, after) ==
  { req \in BagToSet(before) : CopiesIn(req, after) < CopiesIn(req, before) }

\* the getFlights call for the filters, page and rowsPerPage on display
CurrentFetch == fetchFlights(filters, page, rowsPerPage)

\* filters, page or rowsPerPage change in the step
QueryChanges == filters' # filters \/ page' # page \/ rowsPerPage' # rowsPerPage

\* C13: a change of filters, page or rowsPerPage cancels no outstanding
\* fetch, and every fetch that resolves, superseded or not, overwrites
\* flights and totalFlights with its response.
C13_SupersededFetchStillApplies ==
  [][/\ QueryChanges => SettledByStep(requests, requests') = {}
     /\ \A req \in SettledByStep(requests, requests') :
          lastSettled' = "resolved" =>
            /\ flights' = ServerResponse(req).flights
            /\ totalFlights' = ServerResponse(req).total_flights]_vars

\* every fetch has settled, the last of them resolved, and the records on
\* display are not the ones the current filters and page select: a
\* superseded fetch resolved after the fetch that replaced it
C13_Witness ==
  /\ requests = EmptyBag
  /\ lastSettled = "resolved"
  /\ flights # <<>>
  /\ flights # ServerResponse(CurrentFetch).flights

\* C14: a change of the page size sets the page index to 0 in the same
\* step and issues exactly one fetch, with skip = 0 and limit = the new
\* page size.
C14_PageSizeChangeResetsPage ==
  [][rowsPerPage' # rowsPerPage =>
       /\ page' = 0
       /\ BagCardinality(requests') = BagCardinality(requests) + 1
       /\ \A req \in IssuedByStep(requests, requests') :
            req.skip = 0 /\ req.limit = rowsPerPage']_vars

\* the page size was changed to 25 while the fetch for page 1 of 10 rows
\* was still outstanding, and the fetch that followed asks for the first 25
C14_Witness ==
  /\ rowsPerPage = 25
  /\ page = 0
  /\ \E req \in BagToSet(requests) : req.skip = 10 /\ req.limit = 10
  /\ \E req \in BagToSet(requests) : req.skip = 0 /\ req.limit = 25

\* the value getFlights receives for a drone or location filter
IdParam(v) == IF v = Empty THEN Undefined ELSE Num(1)

\* C15: every fetch issued carries skip = page * rowsPerPage, limit =
\* rowsPerPage and the filter values of the state it was issued for, and
\* every change of filters, page or rowsPerPage issues a fetch.
C15_FetchCarriesCurrentQuery ==
  [][/\ \A req \in IssuedByStep(requests, requests') :
          /\ req.skip = page' * rowsPerPage'
          /\ req.limit = rowsPerPage'
          /\ req.droneId = IdParam(filters'.droneId)
          /\ req.locationId = IdParam(filters'.locationId)
          /\ req.startDate = filters'.startDate
          /\ req.endDate = filters'.endDate
     /\ QueryChanges => IssuedByStep(requests, requests') # {}]_vars

\* a fetch for a later page with a date filter set is outstanding
C15_Witness ==
  /\ page >= 1
  /\ filters.startDate = DateD
  /\ \E req \in BagToSet(requests) :
       req.skip = page * rowsPerPage /\ req.skip > 0 /\ req.startDate = DateD

\* C16: a sort request changes order and orderBy only: flights,
\* totalFlights, page, rowsPerPage and filters stay as they are and no
\* fetch is issued.
C16_SortChangesSortStateOnly ==
  [][(order' # order \/ orderBy' # orderBy) =>
       /\ UNCHANGED <<flights, totalFlights, page, rowsPerPage, filters>>
       /\ requests' = requests]_vars

\* the table shows page 1, sorted by location descending, and no fetch is
\* outstanding
C16_Witness ==
  /\ orderBy = "location_name"
  /\ order = "desc"
  /\ page = 1
  /\ flights # <<>>
  /\ flights = ServerResponse(CurrentFetch).flights
  /\ requests = EmptyBag

\* C21: once every fetch issued has resolved, none of them rejected, and
\* nothing is outstanding, flights and totalFlights are the response to the
\* fetch for the current filters, page and rowsPerPage, in whatever order
\* the responses arrived.
C21_SettledTableShowsCurrentQuery ==
  (/\ flightsPc = "mounted"
   /\ requests = EmptyBag
   /\ lastSettled = "resolved"
   /\ ~anyRejected)
    => /\ flights = ServerResponse(CurrentFetch).flights
       /\ totalFlights = ServerResponse(CurrentFetch).total_flights

\* C24: a sort request for column p makes p the active column; the
\* direction becomes descending when p was the active column and the
\* direction was ascending, and ascending in every other case; one column
\* and one direction are active at every time.
C24_SortRequestToggles ==
  [][/\ order' \in Orders
     /\ orderBy' \in FlightSortColumns
     /\ (order' # order \/ orderBy' # orderBy) =>
          order' = IF orderBy' = orderBy /\ order = "asc" THEN "desc" ELSE "asc"]_vars

\* the location column was clicked twice: the first click made it the
\* active column, ascending, and the second turned the direction
C24_Witness ==
  /\ flightsPc = "mounted"
  /\ orderBy = "location_name"
  /\ order = "desc"
  /\ page = 0
  /\ requests = EmptyBag

\* C17: when a fetch fails flights and totalFlights keep their values and
\* no fetch is issued in response.
C17_FailedFetchKeepsData ==
  [][(SettledByStep(requests, requests') # {} /\ lastSettled' = "rejected") =>
       /\ UNCHANGED <<flights, totalFlights>>
       /\ IssuedByStep(requests, requests') = {}]_vars

\* the fetch for the current filters and page failed and the records of an
\* earlier fetch are still on display
C17_Witness ==
  /\ lastSettled = "rejected"
  /\ requests = EmptyBag
  /\ flights # <<>>
  /\ flights # ServerResponse(CurrentFetch).flights

\* the row at position k shows a flight without a location
Unlocated(k) == ~Truthy(sortedFlights[k].flight_location_name)

\* C18: sorted ascending by location, every flight without a location
\* comes after every flight that has one, whatever its name; sorted
\* descending it comes before them.
C18_UnlocatedFlightsSortLast ==
  (rowsPc = "rendered" /\ rowOrderBy = "location_name") =>
    \A i, j \in 1..Len(sortedFlights) :
      (Unlocated(i) /\ ~Unlocated(j)) =>
        IF rowOrder = "asc" THEN j < i ELSE i < j

\* the ids of the flights of fs, in order
FlightIds(fs) == [k \in 1..Len(fs) |-> fs[k].id]

\* C20: the rows of the table are a permutation of the flights of the
\* response: every flight appears in exactly one row, with its own fields,
\* and no row shows anything else; 5 flights give 5 rows.
C20_RowsArePermutationOfResponse ==
  rowsPc = "rendered" =>
    /\ Len(sortedFlights) = Len(rowFlights)
    /\ \A i \in 1..Len(rowFlights) :
         Cardinality({ k \in 1..Len(sortedFlights) :
                         sortedFlights[k].id = rowFlights[i].id }) = 1
    /\ \A k \in 1..Len(sortedFlights) :
         \E i \in 1..Len(rowFlights) :
           /\ sortedFlights[k].id = rowFlights[i].id
           /\ sortedFlights[k].flight_location_name = rowFlights[i].flight_location_name
           /\ Truthy(rowFlights[i].duration) => sortedFlights[k].duration = rowFlights[i].duration
    /\ Len(rowFlights) = 5 => Len(sortedFlights) = 5

\* a response of 5 flights, some without a location, was rendered as 5
\* rows in another order than the response's
C20_Witness ==
  /\ rowsPc = "rendered"
  /\ Len(rowFlights) = 5
  /\ Len(sortedFlights) = 5
  /\ \E i \in 1..5 : ~Truthy(rowFlights[i].flight_location_name)
  /\ \E i \in 1..5 : Truthy(rowFlights[i].flight_location_name)
  /\ FlightIds(sortedFlights) # FlightIds(rowFlights)

\* the step sends no request and leaves the list on display as it is
NothingSent == sent' = sent /\ pending' = pending /\ listState' = listState

\* C19: a create or import handler that runs with its required input
\* missing sends no request and leaves the list unchanged:
\* handleCreatePilot with an empty or whitespace-only name,
\* handleCreateFlight without pilot, drone or date, handleImport and
\* handleImportZip without a file or with the confirmation declined.
C19_MissingInputSendsNothing ==
  [][/\ (lastCall' = "handleCreatePilot" /\ Trim(newPilotName.s) = <<>>) => NothingSent
     /\ (lastCall' = "handleCreateFlight"
           /\ \E field \in RequiredFlightFields : newFlightData[field] = Empty) => NothingSent
     /\ (lastCall' = "handleImport"
           /\ (importFile = Null \/ confirmed' = "cancel")) => NothingSent
     /\ (lastCall' = "handleImportZip"
           /\ (importZipFile = Null \/ confirmed' = "cancel")) => NothingSent]_vars

\* after one pilot was created and listed, handleCreatePilot ran on a name
\* of spaces only and sent nothing
C19_Witness ==
  /\ lastCall = "handleCreatePilot"
  /\ newPilotName = Str(<<32, 32>>)
  /\ sent = <<"createPilot", "getPilots">>
  /\ pending = {}
  /\ Len(listState) = 1

\* ------------------------------------------------------------------------
\* Properties of the comparator factory
\* ------------------------------------------------------------------------
\* the natural order of two values of one column
NaturalLess(x, y) == IF x.t = "number" THEN x.n < y.n ELSE LexLess(x.s, y.s)

\* both sort values are present and of the same type
Comparable(x, y) == IsPresent(x) /\ IsPresent(y) /\ x.t = y.t

\* C4: for mutually comparable field values the comparator is negative
\* exactly when a's value is lower (asc) or higher (desc), positive exactly
\* in the opposite case, and 0 when the two values are equal.
C4_ComparatorFollowsDirection ==
  LET x == cmpA[cmpOrderBy]
      y == cmpB[cmpOrderBy]
  IN  (cmpPc = "compared" /\ Comparable(x, y)) =>
        /\ cmpOrder = "asc" =>
             /\ (cmpResult < 0) <=> NaturalLess(x, y)
             /\ (cmpResult > 0) <=> NaturalLess(y, x)
        /\ cmpOrder = "desc" =>
             /\ (cmpResult < 0) <=> NaturalLess(y, x)
             /\ (cmpResult > 0) <=> NaturalLess(x, y)
        /\ x = y => cmpResult = 0

\* an ascending comparator put a lower string first
C4_Witness ==
  /\ cmpPc = "compared"
  /\ cmpOrder = "asc"
  /\ cmpOrderBy = "name"
  /\ Comparable(cmpA.name, cmpB.name)
  /\ NaturalLess(cmpA.name, cmpB.name)
  /\ cmpResult < 0

\* the sentinel of a column: '' for strings, 0 for numbers
Sentinel(field) == IF field = "name" THEN Str(<<>>) ELSE Num(0)

\* rec with the sentinel in place of a missing value of the column
WithSentinel(rec, field) ==
  IF IsPresent(rec[field]) THEN rec ELSE [rec EXCEPT ![field] = Sentinel(field)]

\* C5: on every page the comparator's result for two records equals its
\* result after the sentinel is substituted for each missing sort value.
C5_MissingComparedAsSentinel ==
  cmpPc = "compared" =>
    cmpResult = ApplyComparator(getComparator(cmpPage, cmpOrder, cmpOrderBy),
                                WithSentinel(cmpA, cmpOrderBy),
                                WithSentinel(cmpB, cmpOrderBy))

\* the two copies that read a[orderBy] || '' do compare a missing value as
\* the sentinel
SubstitutingCopiesUseSentinel ==
  (cmpPc = "compared" /\ SubstitutesEmpty(cmpPage)) =>
    cmpResult = ApplyComparator(getComparator(cmpPage, cmpOrder, cmpOrderBy),
                                WithSentinel(cmpA, cmpOrderBy),
                                WithSentinel(cmpB, cmpOrderBy))

\* ------------------------------------------------------------------------
\* Properties of stableSort
\* ------------------------------------------------------------------------
\* the comparator of the sort under check
SortComparator == getComparator(sortPage, sortOrder, sortOrderBy)

\* the position in out of the record with the given id
PositionOf(out, id) == CHOOSE k \in 1..Len(out) : out[k].id = id

\* the ids of the records of out, in order
IdsOf(out) == [k \in 1..Len(out) |-> out[k].id]

\* the sort column of the input holds the strings 'b', 'a', 'a'
NamesBAA ==
  /\ sortOrderBy = "name"
  /\ Len(sortArray) = 3
  /\ sortArray[1].name = Str(<<98>>)
  /\ sortArray[2].name = Str(<<97>>)
  /\ sortArray[3].name = Str(<<97>>)

ValidPoints == ValidFilter(flightData)

\* C7: for a track with at least one valid point the decimated output
\* begins with the first valid point and ends with the last valid point.
C7_FirstAndLastKept ==
  (mapPc = "done" /\ Len(ValidPoints) >= 1) =>
    /\ Len(intelligentPoints) >= 1
    /\ intelligentPoints[1] = ValidPoints[1]
    /\ intelligentPoints[Len(intelligentPoints)] = ValidPoints[Len(ValidPoints)]

\* the walk dropped the last valid point and the closing push restored it
C7_Witness ==
  /\ mapPc = "done"
  /\ Len(ValidPoints) >= 3
  /\ lastPoint.id # ValidPoints[Len(ValidPoints)].id
  /\ intelligentPoints[Len(intelligentPoints)] = ValidPoints[Len(ValidPoints)]

\* C8: in every step of the walk the current point is kept and becomes the
\* reference exactly when it is at least 10 m from the most recently kept
\* point, whatever its numeric latitude and longitude.
C8_KeptIffFarFromReference ==
  [][(mapPc = "walk" /\ walkI <= Len(validFlightData)) =>
       LET currentPoint == validFlightData[walkI] IN
         (/\ lastPoint' = currentPoint
          /\ filteredPoints' = Append(filteredPoints, currentPoint))
         <=> AtLeastMinDistance(PointDistance(lastPoint, currentPoint))]_vars

\* C9: in the decimated output every two adjacent points are at least 10 m
\* apart, except possibly the pair that ends with the final point.
C9_AdjacentKeptFarApart ==
  mapPc = "done" =>
    \A k \in 1..(Len(intelligentPoints) - 2) :
      AtLeastMinDistance(PointDistance(intelligentPoints[k], intelligentPoints[k + 1]))

\* the walk kept a point 10 m or more from the first one, and the closing
\* push added a final point that is nearer than 10 m to it
C9_Witness ==
  /\ mapPc = "done"
  /\ Len(intelligentPoints) = 3
  /\ AtLeastMinDistance(PointDistance(intelligentPoints[1], intelligentPoints[2]))
  /\ ~AtLeastMinDistance(PointDistance(intelligentPoints[2], intelligentPoints[3]))

\* C10: the decimated output is a subsequence of the valid points: every
\* output point is a valid input sample, the output is in input order, and
\* no sample occurs twice (ids are the positions in the log).
C10_OutputIsSubsequence ==
  mapPc = "done" =>
    /\ \A k \in 1..Len(intelligentPoints) :
         /\ intelligentPoints[k].id \in 1..Len(flightData)
         /\ intelligentPoints[k] = flightData[intelligentPoints[k].id]
         /\ IsValidPoint(intelligentPoints[k])
    /\ \A k \in 1..(Len(intelligentPoints) - 1) :
         intelligentPoints[k].id < intelligentPoints[k + 1].id

\* the walk itself kept the final point of a track that also holds an
\* invalid sample, and the closing step did not push it again
C10_Witness ==
  /\ mapPc = "done"
  /\ Len(ValidPoints) >= 2
  /\ Len(ValidPoints) < Len(flightData)
  /\ lastPoint.id = ValidPoints[Len(ValidPoints)].id
  /\ Len(intelligentPoints) >= 2

\* every two valid points of the track are less than 10 m apart
AllWithinMinDistance ==
  \A i, j \in 1..Len(ValidPoints) :
    ~AtLeastMinDistance(PointDistance(ValidPoints[i], ValidPoints[j]))

\* C11: a track with 0 or 1 valid points is returned unchanged; a track
\* with 2 or more valid points that all lie within 10 m of each other is
\* reduced to exactly its first and its last valid point.
C11_DecimationEdgeCases ==
  mapPc = "done" =>
    /\ Len(ValidPoints) < 2 => intelligentPoints = ValidPoints
    /\ (Len(ValidPoints) >= 2 /\ AllWithinMinDistance) =>
         intelligentPoints = <<ValidPoints[1], ValidPoints[Len(ValidPoints)]>>

\* three valid points at one and the same position, off the equator and
\* the prime meridian, were reduced to the first and the last
C11_Witness ==
  /\ mapPc = "done"
  /\ Len(ValidPoints) = 3
  /\ \A i \in 1..3 : Truthy(ValidPoints[i].latitude) /\ Truthy(ValidPoints[i].longitude)
  /\ \A i, j \in 1..3 : PointDistance(ValidPoints[i], ValidPoints[j]) = 0
  /\ intelligentPoints = <<ValidPoints[1], ValidPoints[3]>>

\* C12: when FlightDetail first shows a flight the map renders the
\* decimated points (the toggle starts off), and at every time the full
\* valid track is rendered if the toggle is on and the decimated points if
\* it is off.
C12_DecimatedByDefault ==
  /\ ~showAllMapPoints
  /\ [](mapPc = "done" =>
          pointsToRender = IF showAllMapPoints THEN ValidPoints ELSE intelligentPoints)

\* ------------------------------------------------------------------------
\* Properties of FlightDetail
\* ------------------------------------------------------------------------
\* the loaded flight has a flight location, the only case in which the
\* debounce effect sets a timer
HasLocation(fl) == fl # NoFlight /\ fl.flight_location # NoLocation

C23_WriteOnlyAfterUserChange == writeCount > 0 => userChanged

\* C29: whenever NotesEditor enters edit mode, the textarea holds the
\* current initialNotes prop.
C29_EditStartsFromInitialNotes ==
  [][(~editing /\ editing') => notes' = initialNotes(flight')]_vars

\* ------------------------------------------------------------------------
\* Properties of MapDisplay3D
\* ------------------------------------------------------------------------
\* C25: once the cleanup of the viewer effect has run, every viewer that
\* was constructed has been destroyed, and none is constructed afterwards.
C25_NoViewerOutlivesUnmount == cleanupRan => liveViewers = {}

\* ------------------------------------------------------------------------
\* Properties of FlightLocations
\* ------------------------------------------------------------------------
\* C26: every location of the list whose statistics are cached carries the
\* images that were loaded with the statistics.
C26_CachedLocationsKeepImages ==
  \A id \in DOMAIN locations : id \in locationStatistics => locations[id].images

\* C27: loadingStats is non-null while a fetchStatistics call is
\* outstanding, and null when none is.
C27_LoadingStatsWhileFetching == (loadingStats # <<>>) <=> (statsRequests # EmptyBag)

\* ------------------------------------------------------------------------
\* Properties of Admin
\* ------------------------------------------------------------------------
\* C28: after handleDipulLinkChange has completed (the settings were
\* loaded, no updateSetting is outstanding), the switch shows the value
\* the server stores, and after a failed updateSetting the error feedback
\* is on display.
C28_SwitchShowsStoredValue ==
  (/\ settingsFetch = "settled"
   /\ lastUpdate # "none"
   /\ settingUpdates = EmptyBag)
    => /\ showDipulMapLink = storedSetting
       /\ lastUpdate = "failed" => dipulFeedback = "error"

\* ------------------------------------------------------------------------
\* Properties of DroneDetail and BatteryPackDetail
\* ------------------------------------------------------------------------
\* the page renders <CircularProgress /> in place of its content
Spinner == IF screen = "DroneDetail" THEN drone = "null" ELSE batteryPack = "null"

\* C30: once the initial fetch of DroneDetail or BatteryPackDetail has
\* settled, resolved or rejected, the page eventually leaves the spinner.
C30_SpinnerEventuallyLeaves ==
  (screen \in {"DroneDetail", "BatteryPackDetail"} /\ detailFetch \in {"resolved", "rejected"})
    ~> ~Spinner

====
